---------------------------- MODULE Spec2Model ----------------------------
(***************************************************************************)
(* Model of the wekan-scanner command dispatcher (scanner/cli.py), its     *)
(* operation registry (scanner/registry.py) and the session object         *)
(* (scanner/client.py).                                                    *)
(*                                                                         *)
(* One behaviour is one call of main(): the category modules are imported  *)
(* (which registers their actions), the global flags are parsed, the       *)
(* command path is resolved and the resolved operation is run inside       *)
(* "async with await get_client() as client".                              *)
(*                                                                         *)
(* Several specifications share the module: Spec (FairSpec with fairness)  *)
(* is one call of main(); RegistrySpec is a sequence of decorator calls on *)
(* an empty registry; LibrarySpec is one call of create_action_wrapper and *)
(* one call of APIResponse.as_model or as_list; OrderSpec is a series of   *)
(* processes running top-level all over the same registry; DeriveSpec is   *)
(* one call of the decorator action(); WrapSpec is one construction of an  *)
(* APIResponse; RunAllSpec is one execution of the body of a run-all.      *)
(*                                                                         *)
(* Python values are records [t |-> type, v |-> value]; exceptions are     *)
(* records [type |-> class, code |-> SystemExit code].                     *)
(***************************************************************************)
EXTENDS Integers, Sequences, FiniteSets, TLC

VARIABLES
    argv,          \* sys.argv[1:]
    env_url,       \* os.getenv("WEKAN_URL"): a string, None when unset
    all_decorated, \* category modules on disk that carry an @all_action
    _actions,      \* registry._actions: category -> (action name -> func)
    _all_funcs,    \* registry._all_funcs: category -> func
    CONFIG,        \* cli.CONFIG
    pc,            \* position of main()
    remaining,     \* tokens left after the global flags
    category,      \* main: category
    action,        \* main: action
    action_args,   \* main: action_args
    mode,          \* "none" | "all" (top-level all) | "single"
    queue,         \* top-level all: categories the generator has not visited
    codes,         \* top-level all: values run_action returned so far
    func,          \* the function run_action was called with
    call_args,     \* the argument list run_action was called with
    kwargs,        \* keyword arguments defopt bound for the call
    sessions,      \* sessions opened so far: [owner, state, calls,
                   \* requests, headers]
    inflight,      \* operations currently executing
    cancelled,     \* the SIGINT handler cancelled the running task
    result,        \* value the operation returned
    exc,           \* exception travelling up the stack, or NoExc
    printed,       \* number of documents written to stdout by the wrapper
    invoked,       \* operations invoked so far, in order
    retval,        \* value main() returned
    escaped,       \* exception that left main()
    lookups,       \* a lookup function of the registry has been called
    listing,       \* what main() listed on stderr: categories, or a
                   \* category with its actions
    reg_log,       \* calls of the registry's decorators, in order
    sig,           \* parameter list of the function last passed to
                   \* create_action_wrapper
    schema,        \* what create_action_wrapper made of it
    response,      \* APIResponse.json of the response last resolved
    call_keys,     \* keys passed to as_model / as_list in that call
    extracted,     \* what as_model / as_list gave
    runs,          \* runs of top-level all, one process each: the order
                   \* get_categories() gave and the run-alls executed
    derived,       \* the last call of the decorator action() on a function
                   \* and the key it registered
    wrapped,       \* the last APIResponse constructed and what came of it
    ra             \* one execution of the body of a category's run-all

vars == <<argv, env_url, all_decorated, _actions, _all_funcs, CONFIG, pc,
          remaining, category, action, action_args, mode, queue, codes,
          func, call_args, kwargs, sessions, inflight, cancelled, result,
          exc, printed, invoked, retval, escaped, lookups, listing, reg_log,
          sig, schema, response, call_keys, extracted, runs, derived,
          wrapped, ra>>

\* state of one call of main(), the registry apart
dispatch_vars == <<argv, env_url, all_decorated, CONFIG, pc, remaining,
                   category, action, action_args, mode, queue, codes, func,
                   call_args, kwargs, sessions, inflight, cancelled, result,
                   exc, printed, invoked, retval, escaped, lookups, listing>>

\* state of the library calls made outside main()
adapter_vars == <<sig, schema>>
resolver_vars == <<response, call_keys, extracted>>
order_vars == <<runs>>
derive_vars == <<derived>>
wrap_vars == <<wrapped>>
runall_vars == <<ra>>
lib_vars == <<reg_log, sig, schema, response, call_keys, extracted, runs,
              derived, wrapped, ra>>

-----------------------------------------------------------------------------
(* Bounds of the model *)

\* requests one operation may send before it finishes
MaxRequests == 1

-----------------------------------------------------------------------------
(* Python values and exceptions *)

NoValue == [t |-> "none", v |-> 0]
PyInt(n) == [t |-> "int", v |-> n]
PyBool(b) == [t |-> "bool", v |-> IF b THEN 1 ELSE 0]
PyModel == [t |-> "model", v |-> 1]
PyList(n) == [t |-> "list", v |-> n]
PyDict == [t |-> "dict", v |-> 1]

\* isinstance(x, int): bool is a subclass of int
isinstance_int(x) == x.t \in {"int", "bool"}

NoExc == [type |-> "none", code |-> NoValue]
SystemExit(c) == [type |-> "SystemExit", code |-> c]
KeyboardInterrupt == [type |-> "KeyboardInterrupt", code |-> NoValue]
PyException(name) == [type |-> name, code |-> NoValue]

\* exit status of the process for "sys.exit(main())": None is 0, an int
\* (True is 1, False is 0) is the status itself, anything else is 1
sys_exit(x) ==
    IF x.t = "none" THEN 0
    ELSE IF isinstance_int(x) THEN x.v
    ELSE 1

-----------------------------------------------------------------------------
(* The category modules and the operations they define *)

Modules == {"authentication", "boards", "cards"}

\* @action() functions of the modules: declaring module, registered name,
\* keyword-only parameters without default, and shape of the return value
Functions == {
    [module |-> "authentication", name |-> "login", fn |-> "login",
     required |-> {"--username", "--password"}, ret |-> "model"],
    [module |-> "boards", name |-> "get_public", fn |-> "get_public_boards",
     required |-> {}, ret |-> "list"],
    [module |-> "boards", name |-> "get_board", fn |-> "get_board",
     required |-> {"--board-id"}, ret |-> "model"],
    [module |-> "boards", name |-> "delete_board", fn |-> "delete_board",
     required |-> {"--board-id"}, ret |-> "bool"],
    [module |-> "boards", name |-> "export_board_json", fn |-> "export_board_json",
     required |-> {"--board-id"}, ret |-> "dict"] }

\* the functions above in the order their decorators run: modules in the
\* order pkgutil.iter_modules lists them, functions in source order
DeclarationOrder ==
    <<"login", "get_public_boards", "get_board", "delete_board",
      "export_board_json">>

\* the @all_action function of a module
AllFunc(m) ==
    [module |-> m, name |-> "all", fn |-> "all", required |-> {}, ret |-> "int"]

NoFunc == [module |-> "", name |-> "", fn |-> "", required |-> {}, ret |-> ""]

-----------------------------------------------------------------------------
(* Command lines *)

None == "None"

\* "not x" for a string or None
Falsy(x) == x \in {None, ""}

\* option strings of the global parser that take one argument
GlobalValueFlags == {"--url", "-u", "--token"}
\* store_true options of the global parser
GlobalBoolFlags == {"--verbose", "-v", "--no-verify-ssl", "--help", "-h"}
GlobalFlags == GlobalValueFlags \cup GlobalBoolFlags

\* tokens that start with "-" and so are read as option strings
OptionTokens == GlobalFlags \cup {"--board-id", "--bogus"}

\* global part of a command line
GlobalPrefixes == {
    <<>>,
    <<"--url", "U">>,
    <<"--url", "U", "--token", "T">>,
    <<"-u", "U", "-v", "--no-verify-ssl">>,
    <<"-h">>,
    <<"--url">> }

\* argument lists that follow the action token
ArgLists == {
    <<>>,
    <<"--board-id", "abc">>,
    <<"--board-id">>,
    <<"--bogus", "x">>,
    <<"abc">>,
    <<"--board-id", "abc", "--verbose">>,
    <<"--board-id", "abc", "--help">> }

CategoryTokens == Modules \cup {"bogus"}
ActionTokens == {f.name : f \in Functions} \cup {"all", "bogus"}

\* the part of a command line after the global flags
CommandPaths ==
    {<<>>, <<"all">>, <<"all", "get_board", "--board-id", "abc">>}
    \cup {<<c>> : c \in CategoryTokens}
    \cup {<<c, a>> \o args :
            c \in CategoryTokens, a \in ActionTokens, args \in ArgLists}

ArgvSet == {g \o p : g \in GlobalPrefixes, p \in CommandPaths}

-----------------------------------------------------------------------------
(* Global flags: create_global_parser, parse_global_args *)

\* parser.parse_known_args(argv): option strings of the parser are consumed
\* wherever they stand in argv, every other token is kept, in order, in
\* the list of remaining tokens; an option that takes an argument and is
\* followed by none (end of argv or another option string) is an error
RECURSIVE parse_known_args(_, _, _)
parse_known_args(av, i, ns) ==
    IF i > Len(av) THEN ns
    ELSE LET tok == av[i] IN
        IF tok \in GlobalValueFlags THEN
            IF i + 1 > Len(av) \/ av[i + 1] \in OptionTokens
            THEN [ns EXCEPT !.error = TRUE]
            ELSE IF tok = "--token"
                 THEN parse_known_args(av, i + 2, [ns EXCEPT !.token = av[i + 1]])
                 ELSE parse_known_args(av, i + 2, [ns EXCEPT !.url = av[i + 1]])
        ELSE IF tok \in {"--verbose", "-v"} THEN
            parse_known_args(av, i + 1, [ns EXCEPT !.verbose = TRUE])
        ELSE IF tok = "--no-verify-ssl" THEN
            parse_known_args(av, i + 1, [ns EXCEPT !.no_verify_ssl = TRUE])
        ELSE IF tok \in {"--help", "-h"} THEN
            parse_known_args(av, i + 1, [ns EXCEPT !.help = TRUE])
        ELSE
            parse_known_args(av, i + 1,
                             [ns EXCEPT !.remaining = Append(@, tok)])

\* defaults of create_global_parser: --url from WEKAN_URL, --token from
\* WEKAN_API_TOKEN (unset in this model)
create_global_parser(envurl) ==
    [url |-> envurl, token |-> None, verbose |-> FALSE,
     no_verify_ssl |-> FALSE, help |-> FALSE, remaining |-> <<>>,
     error |-> FALSE]

NoConfig == [url |-> None, verbose |-> FALSE, verify_ssl |-> FALSE,
             token |-> None, set |-> FALSE]

\* parse_global_args without the "if not args.url" exit
parse_global_args_no_url_check(av, envurl) ==
    LET args == parse_known_args(av, 1, create_global_parser(envurl)) IN
    IF args.error THEN
        [exc |-> SystemExit(PyInt(2)), config |-> NoConfig,
         remaining |-> <<>>, listed |-> FALSE]
    ELSE IF args.help THEN
        [exc |-> SystemExit(PyInt(0)), config |-> NoConfig,
         remaining |-> <<>>, listed |-> TRUE]
    ELSE
        [exc |-> NoExc, listed |-> FALSE,
         config |-> [url |-> args.url, verbose |-> args.verbose,
                     verify_ssl |-> ~args.no_verify_ssl,
                     token |-> args.token, set |-> TRUE],
         remaining |-> args.remaining]

\* parse_global_args(argv): [exc, config, remaining, listed]; listed tells
\* that print_global_help ran, which reads the categories and their
\* actions from the registry
parse_global_args(av, envurl) ==
    LET args == parse_known_args(av, 1, create_global_parser(envurl)) IN
    IF args.error THEN
        [exc |-> SystemExit(PyInt(2)), config |-> NoConfig,
         remaining |-> <<>>, listed |-> FALSE]
    ELSE IF args.help THEN
        [exc |-> SystemExit(PyInt(0)), config |-> NoConfig,
         remaining |-> <<>>, listed |-> TRUE]
    ELSE IF Falsy(args.url) THEN
        [exc |-> SystemExit(PyInt(1)), config |-> NoConfig,
         remaining |-> <<>>, listed |-> FALSE]
    ELSE
        [exc |-> NoExc, listed |-> FALSE,
         config |-> [url |-> args.url, verbose |-> args.verbose,
                     verify_ssl |-> ~args.no_verify_ssl,
                     token |-> args.token, set |-> TRUE],
         remaining |-> args.remaining]

-----------------------------------------------------------------------------
(* Registry: scanner/registry.py *)

EmptyDict == [k \in {} |-> NoFunc]

\* d[k] = v on a dict
DictSet(d, k, v) == [x \in DOMAIN d \cup {k} |-> IF x = k THEN v ELSE d[x]]

\* the dict of one category: a dict keeps its keys in insertion order, and
\* assigning to a key it holds replaces the value and keeps the position
EmptyActions == [keys |-> <<>>, vals |-> EmptyDict]

OrderedSet(d, k, v) ==
    [keys |-> IF k \in DOMAIN d.vals THEN d.keys ELSE Append(d.keys, k),
     vals |-> DictSet(d.vals, k, v)]

\* @action() applied to f: _actions[category][action_name] = func
action_decorator(acts, f) ==
    LET cat == f.module
        inner == IF cat \in DOMAIN acts THEN acts[cat] ELSE EmptyActions
    IN DictSet(acts, cat, OrderedSet(inner, f.name, f))

\* @all_action applied to f: _all_funcs[category] = func
all_action(allf, f) == DictSet(allf, f.module, f)

\* _actions.get(category, {})
get_actions(cat) ==
    IF cat \in DOMAIN _actions THEN _actions[cat] ELSE EmptyActions

\* a lookup that falls back to another category's run-all
get_all_func_fallback(cat) ==
    IF cat \in DOMAIN _all_funcs THEN _all_funcs[cat]
    ELSE IF DOMAIN _all_funcs # {}
         THEN _all_funcs[CHOOSE c \in DOMAIN _all_funcs : TRUE]
         ELSE NoFunc

\* _all_funcs.get(category)
get_all_func(cat) == IF cat \in DOMAIN _all_funcs THEN _all_funcs[cat] ELSE NoFunc

\* set(_actions.keys()) | set(_all_funcs.keys()); the order of the list
\* built from the set is chosen where the list is iterated
get_categories == DOMAIN _actions \cup DOMAIN _all_funcs

\* a listing that puts "all" after the action names
list_actions_append(cat) ==
    LET actions == get_actions(cat).keys
    IN IF cat \in DOMAIN _all_funcs THEN Append(actions, "all") ELSE actions

\* list_actions(category): list(get_actions(category).keys()), and
\* actions.insert(0, 'all') when the category is in _all_funcs
list_actions(cat) ==
    LET actions == get_actions(cat).keys
    IN IF cat \in DOMAIN _all_funcs THEN <<"all">> \o actions ELSE actions

\* the registry after every module of mods was imported: each @action and
\* each @all_action of the module has run once
RECURSIVE RegisterActions(_, _)
RegisterActions(acts, fns) ==
    IF fns = <<>> THEN acts
    ELSE LET f == CHOOSE x \in Functions : x.fn = Head(fns)
         IN RegisterActions(action_decorator(acts, f), Tail(fns))

RECURSIVE RegisterAlls(_, _)
RegisterAlls(allf, ms) ==
    IF ms = {} THEN allf
    ELSE LET m == CHOOSE x \in ms : TRUE
         IN RegisterAlls(all_action(allf, AllFunc(m)), ms \ {m})

\* _actions once scanner.api is imported
ImportedActions ==
    RegisterActions([k \in {} |-> EmptyActions], DeclarationOrder)

\* _all_funcs once scanner.api is imported, by the set of modules that
\* carry an @all_action
ImportedAllFuncs == [ms \in SUBSET Modules |-> RegisterAlls(EmptyDict, ms)]

-----------------------------------------------------------------------------
(* Action arguments: defopt.run(wrapped, argv=args) *)

\* command-line flags of the wrapped function: the client parameter is
\* removed, every other parameter of the functions above is keyword-only
\* and has no default
Schema(f) == f.required

\* defopt builds an argparse parser from the signature and parses args:
\* -h/--help exits with status 0; an unknown flag, a stray positional, a
\* flag without its value or a missing required flag exits with status 2
RECURSIVE defopt_parse(_, _, _, _)
defopt_parse(f, args, i, bound) ==
    IF i > Len(args) THEN
        IF Schema(f) \subseteq bound
        THEN [exc |-> NoExc, kwargs |-> bound]
        ELSE [exc |-> SystemExit(PyInt(2)), kwargs |-> {}]
    ELSE LET tok == args[i] IN
        IF tok \in {"-h", "--help"} THEN
            [exc |-> SystemExit(PyInt(0)), kwargs |-> {}]
        ELSE IF tok \in Schema(f) THEN
            IF i + 1 > Len(args) \/ args[i + 1] \in OptionTokens
            THEN [exc |-> SystemExit(PyInt(2)), kwargs |-> {}]
            ELSE defopt_parse(f, args, i + 2, bound \cup {tok})
        ELSE [exc |-> SystemExit(PyInt(2)), kwargs |-> {}]

-----------------------------------------------------------------------------
(* Signature adapter: create_action_wrapper *)

\* inspect.Parameter.empty: the parameter has no default
Empty == "<empty>"

\* one parameter of a signature
Param(n, k, d) == [name |-> n, kind |-> k, default |-> d]

\* list(inspect.signature(func).parameters.values()) of the functions
\* handed to the adapter
Signatures == {
    <<>>,
    <<Param("client", "positional", Empty)>>,
    <<Param("client", "positional", Empty),
      Param("board_id", "keyword", Empty)>>,
    <<Param("client", "positional", Empty),
      Param("title", "keyword", Empty),
      Param("permission", "keyword", "public"),
      Param("color", "keyword", "belize")>>,
    <<Param("board_id", "keyword", Empty)>>,
    <<Param("cli", "positional", Empty),
      Param("board_id", "keyword", Empty)>>,
    <<Param("board_id", "positional", Empty),
      Param("client", "positional", Empty)>> }

NoSchema == [exc |-> NoExc, params |-> <<>>, made |-> FALSE]

\* an adapter that hands the whole signature to the parser
create_action_wrapper_keep(params) ==
    [exc |-> NoExc, params |-> params, made |-> TRUE]

\* create_action_wrapper(func): the signature of the wrapper is the
\* signature of func without its first parameter when that parameter is
\* named "client", and the signature of func otherwise; nothing is raised
create_action_wrapper(params) ==
    [exc |-> NoExc,
     params |-> IF params # <<>> /\ params[1].name = "client"
                THEN Tail(params) ELSE params,
     made |-> TRUE]

-----------------------------------------------------------------------------
(* Response resolver: APIResponse.as_model, APIResponse.as_list *)

\* candidate keys one call of as_model may pass
MaxKeys == 2
\* elements of a sequence in a response body
MaxItems == 2

\* JSON objects found in response bodies; the last one lacks the field the
\* model requires
Objects == {[id |-> "a1", title |-> "A"], [id |-> "b1", title |-> "B"],
            [title |-> "untitled"]}

\* sequences of objects a body may hold under the key "items"
ItemLists == UNION {[1..n -> Objects] : n \in 0..MaxItems}

\* a body whose top level is a mapping: an object under "a" and under "b",
\* a scalar under "id", a sequence under "items"
MapBody(ks, items) ==
    [kind |-> "map", items |-> <<>>,
     map |-> [k \in ks |->
                 CASE k = "a" -> [id |-> "a1", title |-> "A"]
                   [] k = "b" -> [id |-> "b1", title |-> "B"]
                   [] k = "id" -> "top"
                   [] k = "items" -> items]]

\* a body whose top level is a sequence
ListBody(items) == [kind |-> "list", items |-> items, map |-> <<>>]

NoResponse == MapBody({}, <<>>)

Responses ==
    {MapBody(ks, <<>>) : ks \in SUBSET {"a", "b", "id"}}
    \cup {MapBody(ks \cup {"items"}, items) :
             ks \in SUBSET {"a", "id"}, items \in ItemLists}
    \cup {ListBody(items) : items \in ItemLists}

\* lists of candidate keys: distinct keys, "c" is in no body
KeyLists ==
    UNION {{ks \in [1..n -> {"a", "b", "c"}] :
              \A i, j \in 1..n : i # j => ks[i] # ks[j]} : n \in 0..MaxKeys}

NoExtract == [op |-> "none", exc |-> NoExc, models |-> <<>>]

\* model_cls(**d) for a mapping d: the model keeps the fields it declares
\* and ignores the others; a missing required field is a ValidationError
Construct(d) ==
    IF "id" \in DOMAIN d
    THEN [exc |-> NoExc, models |-> <<[id |-> d["id"]]>>]
    ELSE [exc |-> PyException("ValidationError"), models |-> <<>>]

\* model_cls(**self.json): "**" needs a mapping
ConstructBody(resp) ==
    IF resp.kind = "map" THEN Construct(resp.map)
    ELSE [exc |-> PyException("TypeError"), models |-> <<>>]

\* "key in self.json": a key of the mapping; an element of a sequence body
\* is an object and never equals a key
Contains(resp, key) == resp.kind = "map" /\ key \in DOMAIN resp.map

\* a resolver that takes the last candidate key present
RECURSIVE as_model_last(_, _, _)
as_model_last(resp, ks, i) ==
    IF i > Len(ks) THEN ConstructBody(resp)
    ELSE IF Contains(resp, ks[Len(ks) + 1 - i])
         THEN Construct(resp.map[ks[Len(ks) + 1 - i]])
         ELSE as_model_last(resp, ks, i + 1)

\* as_model(model_cls, *keys) from the i-th key on: the loop returns at
\* the first key that is in self.json; after the loop, or without keys,
\* the model is built from self.json.  The result is [exc, models] with
\* the model as the only element of models.
RECURSIVE as_model(_, _, _)
as_model(resp, ks, i) ==
    IF i > Len(ks) THEN ConstructBody(resp)
    ELSE IF Contains(resp, ks[i])
         THEN Construct(resp.map[ks[i]])
         ELSE as_model(resp, ks, i + 1)

\* [model_cls(**item) for item in items]: the first item that cannot be
\* built ends the comprehension with its error
RECURSIVE ConstructAll(_, _, _)
ConstructAll(items, i, acc) ==
    IF i > Len(items) THEN [exc |-> NoExc, models |-> acc]
    ELSE LET m == Construct(items[i]) IN
         IF m.exc # NoExc THEN m
         ELSE ConstructAll(items, i + 1, acc \o m.models)

\* as_list(model_cls, key), called with the positional arguments after
\* model_cls in ks: key has no default, so a call without it is a
\* TypeError; self.json.get needs a mapping, a sequence body has no get
as_list(resp, ks) ==
    IF Len(ks) # 1 THEN [exc |-> PyException("TypeError"), models |-> <<>>]
    ELSE IF resp.kind # "map"
    THEN [exc |-> PyException("AttributeError"), models |-> <<>>]
    ELSE ConstructAll(IF ks[1] \in DOMAIN resp.map THEN resp.map[ks[1]] ELSE <<>>,
                      1, <<>>)

-----------------------------------------------------------------------------
(* Session: WekanClientConfig, WekanClient._create_client *)

\* WekanClientConfig(**kw): the model declares base_url, auth_token,
\* user_id, timeout and verify_ssl; a keyword that is none of its fields is
\* ignored, a field that is not passed takes its default
WekanClientConfig(kw) ==
    [base_url |-> kw["base_url"],
     auth_token |-> IF "auth_token" \in DOMAIN kw THEN kw["auth_token"] ELSE None,
     user_id |-> IF "user_id" \in DOMAIN kw THEN kw["user_id"] ELSE None,
     verify_ssl |-> IF "verify_ssl" \in DOMAIN kw THEN kw["verify_ssl"] ELSE TRUE]

\* headers of the httpx.AsyncClient, sent with every request of the
\* session: x-wekan-token and x-wekan-user-id are set when the config
\* holds a value for them (None stands for a header that is not set)
_create_client(config) ==
    [x_wekan_token |-> IF ~Falsy(config.auth_token)
                       THEN config.auth_token ELSE None,
     x_wekan_user_id |-> IF ~Falsy(config.user_id)
                         THEN config.user_id ELSE None]

-----------------------------------------------------------------------------
(* registry.action(): the name an undecorated function registers under *)

\* no call of the decorator yet
NoDerived == [op |-> "none", module |-> <<>>, func_name |-> <<>>,
              name |-> <<>>, category |-> None, action_name |-> <<>>]

\* longest function name, in pieces
MaxNameLen == 4

\* a name is a sequence of pieces: the underscore and words without one
NamePieces == {"boards", "_", "list"}

\* function names a category module may define
FuncNames ==
    UNION {[1..n -> NamePieces] : n \in 1..MaxNameLen}

\* func.__module__, split at the dots
ModulePaths ==
    {<<"scanner", "api", "boards">>, <<"boards">>,
     <<"scanner", "api", "list">>}

\* the argument of @action(...): None and "" are both false, "list" is a
\* custom name
ExplicitNames == {<<>>, <<"list">>}

\* str.startswith and str.endswith
startswith(s, p) == Len(p) <= Len(s) /\ SubSeq(s, 1, Len(p)) = p
endswith(s, p) ==
    Len(p) <= Len(s) /\ SubSeq(s, Len(s) - Len(p) + 1, Len(s)) = p

\* a derivation that knows "<category>_" as a prefix and "_<category>" as
\* a suffix only
derive_prefix_or_suffix(cat, func_name) ==
    LET p1 == <<cat, "_">>
        p2 == <<"_", cat>>
    IN IF startswith(func_name, p1)
       THEN SubSeq(func_name, Len(p1) + 1, Len(func_name))
       ELSE IF endswith(func_name, p2)
       THEN SubSeq(func_name, 1, Len(func_name) - Len(p2))
       ELSE func_name

\* the for/else loop of the decorator over the patterns "<category>_" and
\* "_<category>": each pattern is tried as a prefix, then as a suffix, and
\* the first match ends the loop
derive(cat, func_name) ==
    LET p1 == <<cat, "_">>
        p2 == <<"_", cat>>
    IN IF startswith(func_name, p1)
       THEN SubSeq(func_name, Len(p1) + 1, Len(func_name))
       ELSE IF endswith(func_name, p1)
       THEN SubSeq(func_name, 1, Len(func_name) - Len(p1))
       ELSE IF startswith(func_name, p2)
       THEN SubSeq(func_name, Len(p2) + 1, Len(func_name))
       ELSE IF endswith(func_name, p2)
       THEN SubSeq(func_name, 1, Len(func_name) - Len(p2))
       ELSE func_name

-----------------------------------------------------------------------------
(* client.APIResponse: construction from a transport response *)

\* members a JSON array or object has besides "statusCode"
MaxMembers == 2

\* the value under "statusCode": absent, a number, the string "404", null
\* or true
NoCode == [t |-> "none", v |-> 0]
Codes ==
    {[t |-> "int", v |-> n] : n \in {0, 200, 399, 400, 404, 500}}
    \cup {[t |-> "str", v |-> 404], [t |-> "null", v |-> 0],
          [t |-> "bool", v |-> 1]}

\* a response body: text that is not JSON, or a JSON value; mentions tells
\* whether "statusCode" in value is true (a key of the object, an element
\* of the array, a substring of the string), code is the value an object
\* holds under that key, size counts the other members
Body(kind, mentions, code, size) ==
    [kind |-> kind, mentions |-> mentions, code |-> code, size |-> size]

Bodies ==
    {Body(k, FALSE, NoCode, 0) : k \in {"invalid", "null", "number", "bool"}}
    \cup {Body("string", m, NoCode, 0) : m \in BOOLEAN}
    \cup {Body("array", m, NoCode, n) : m \in BOOLEAN, n \in 0..MaxMembers}
    \cup {Body("object", FALSE, NoCode, n) : n \in 0..MaxMembers}
    \cup {Body("object", TRUE, c, n) : c \in Codes, n \in 0..MaxMembers}

\* status codes of the transport response
TransportStatuses == {200, 204, 404}

\* the dict {}
EmptyMapping == Body("object", FALSE, NoCode, 0)

\* no APIResponse constructed yet
NoWrapped == [op |-> "none", body |-> EmptyMapping, status |-> 0,
              raised |-> NoExc, json |-> EmptyMapping]

\* APIResponse.__init__: [raised, json]. response.json() raises on text
\* that is not JSON; '"statusCode" in value' raises TypeError on null, a
\* number and a boolean; value["statusCode"] raises TypeError on a string
\* and an array; '>= 400' raises TypeError on a string and on null; every
\* exception but the HTTPStatusError of the constructor itself is caught
\* and leaves {} as the body
APIResponse_init(body, status) ==
    IF body.kind = "invalid" THEN
        [raised |-> NoExc, json |-> EmptyMapping]
    ELSE IF body.kind \in {"null", "number", "bool"} THEN
        [raised |-> NoExc, json |-> EmptyMapping]
    ELSE IF ~body.mentions THEN
        [raised |-> NoExc, json |-> body]
    ELSE IF body.kind \in {"string", "array"} THEN
        [raised |-> NoExc, json |-> EmptyMapping]
    ELSE IF body.code.t \in {"str", "null"} THEN
        [raised |-> NoExc, json |-> EmptyMapping]
    ELSE IF body.code.v >= 400 THEN
        [raised |-> PyException("HTTPStatusError"), json |-> body]
    ELSE
        [raised |-> NoExc, json |-> body]

-----------------------------------------------------------------------------
(* The bodies of the category run-alls *)

\* one statement of a try block: kind is "test" (requests that create
\* nothing), "create" (a POST that creates res), "delete" (a DELETE of res),
\* "raises" (a request followed by a call that always raises TypeError:
\* as_list() without its key, json() on a dict) or "open" (a session of the
\* run-all's own is constructed and entered); via is the session used, ok
\* and fail are the statements that follow on success and on an exception
\* or inner "return 1", 0 standing for the end of the try block
St(kind, res, via, ok, fail) ==
    [kind |-> kind, res |-> res, via |-> via, ok |-> ok, fail |-> fail]

\* boards.all: board and copy are kept for the finally block, the label
\* is part of the board; get_boards_count calls the dict response.json
boards_all ==
    [steps |-> <<St("test", None, "client", 2, 0),
                 St("create", "board", "client", 3, 0),
                 St("test", None, "client", 4, 0),
                 St("create", "copy", "client", 5, 0),
                 St("test", None, "client", 6, 0),
                 St("create", "label", "client", 7, 0),
                 St("raises", None, "client", 8, 0),
                 St("test", None, "client", 0, 0)>>,
     closes_first |-> FALSE,
     cleanup |-> <<[res |-> "board", via |-> "client"],
                   [res |-> "copy", via |-> "client"]>>]

\* checklists.all: the swimlanes are read with as_list(APIModel), which
\* lacks the key argument
checklists_all ==
    [steps |-> <<St("create", "board", "client", 2, 0),
                 St("raises", None, "client", 3, 0),
                 St("create", "list", "client", 4, 0),
                 St("create", "card", "client", 5, 0),
                 St("create", "checklist", "client", 6, 0),
                 St("test", None, "client", 7, 0),
                 St("create", "item", "client", 8, 0),
                 St("test", None, "client", 9, 0),
                 St("delete", "item", "client", 10, 0),
                 St("delete", "checklist", "client", 0, 0)>>,
     closes_first |-> FALSE,
     cleanup |-> <<[res |-> "card", via |-> "client"],
                   [res |-> "list", via |-> "client"],
                   [res |-> "board", via |-> "client"]>>]

\* custom_fields.all: login, or register and login, through the session
\* passed in; then a session of its own with the token, used for the rest;
\* the finally block first exits that session, then deletes through it
custom_fields_all ==
    [steps |-> <<St("test", None, "client", 4, 2),
                 St("create", "user", "client", 3, 0),
                 St("test", None, "client", 4, 0),
                 St("open", None, "own", 5, 0),
                 St("create", "board", "own", 6, 0),
                 St("create", "custom_field", "own", 7, 0),
                 St("test", None, "own", 8, 0),
                 St("create", "dropdown_item", "own", 9, 0),
                 St("test", None, "own", 10, 0),
                 St("delete", "dropdown_item", "own", 0, 0)>>,
     closes_first |-> TRUE,
     cleanup |-> <<[res |-> "custom_field", via |-> "own"],
                   [res |-> "board", via |-> "own"]>>]

RunAllBodies ==
    [boards |-> boards_all, checklists |-> checklists_all,
     custom_fields |-> custom_fields_all]

\* the resource a created resource is part of on the server
ParentOf ==
    [board |-> None, copy |-> None, label |-> "board", list |-> "board",
     card |-> "list", checklist |-> "card", item |-> "checklist",
     user |-> None, custom_field |-> "board",
     dropdown_item |-> "custom_field"]

\* no run-all body executing
NoExecution ==
    [pc |-> "none", cat |-> None, i |-> 0, held |-> {}, created |-> {},
     deleted |-> {}, failed |-> {}, own |-> "none", late |-> {},
     ret |-> NoValue]

\* the variables of the finally block that hold a created resource
Kept(body) == {body.cleanup[k].res : k \in 1..Len(body.cleanup)}

-----------------------------------------------------------------------------
(* main() *)

EXIT_INTERRUPTED == 130

\* handlers without the KeyboardInterrupt clause
handler_no_interrupt(e) ==
    IF e.type = "SystemExit"
    THEN IF isinstance_int(e.code) THEN e.code ELSE PyInt(1)
    ELSE PyInt(1)

\* the except clauses of main's try statement
handler(e) ==
    IF e.type = "KeyboardInterrupt" THEN PyInt(EXIT_INTERRUPTED)
    ELSE IF e.type = "SystemExit"
         THEN IF isinstance_int(e.code) THEN e.code ELSE PyInt(1)
         ELSE PyInt(1)

\* the value of the last run-all instead of the largest
PyMax_last(vals) ==
    IF vals = <<>> THEN PyInt(0) ELSE vals[Len(vals)]

\* max(values, default=0): the first of the largest values
PyMax(vals) ==
    IF vals = <<>> THEN PyInt(0)
    ELSE LET best == CHOOSE i \in 1..Len(vals) :
                        /\ \A j \in 1..Len(vals) : vals[j].v <= vals[i].v
                        /\ \A j \in 1..(i - 1) : vals[j].v < vals[i].v
         IN vals[best]

\* the lists a set can be turned into
Orderings(S) ==
    {q \in [1..Cardinality(S) -> S] : \A i, j \in 1..Cardinality(S) :
                                          i # j => q[i] # q[j]}

\* the run-all of cards.py: it logs that the card tests are skipped and
\* returns 1, and awaits nothing
SkippedRunAll == AllFunc("cards")

\* every run-all may pass
Results_all_may_pass(f) ==
    CASE f.ret = "bool" -> {PyBool(TRUE), PyBool(FALSE)}
      [] f.ret = "model" -> {PyModel}
      [] f.ret = "list" -> {PyList(0), PyList(2)}
      [] f.ret = "dict" -> {PyDict}
      [] f.ret = "int" -> {PyInt(0), PyInt(1)}

\* values an operation can return, by its declared return shape; the run-all
\* of cards.py returns 1 only
Results(f) ==
    CASE f = SkippedRunAll -> {PyInt(1)}
      [] f.ret = "bool" -> {PyBool(TRUE), PyBool(FALSE)}
      [] f.ret = "model" -> {PyModel}
      [] f.ret = "list" -> {PyList(0), PyList(2)}
      [] f.ret = "dict" -> {PyDict}
      [] f.ret = "int" -> {PyInt(0), PyInt(1)}

\* nothing listed yet
NoListing == [kind |-> "none", entries |-> <<>>]

\* "Categories: a, b" and "Unknown category: x. Available: a, b": the
\* names of the categories, and no action of any of them
CategoryNames(cats) ==
    [kind |-> "categories", entries |-> [c \in cats |-> <<>>]]

\* "Unknown action: x. Available: a, b": the actions of one category
ActionNames(cat) ==
    [kind |-> "actions", entries |-> [c \in {cat} |-> list_actions(cat)]]

Init ==
    /\ argv \in ArgvSet
    /\ env_url \in {None, "E"}
    /\ all_decorated \in SUBSET Modules
    /\ _actions = [k \in {} |-> EmptyActions]
    /\ _all_funcs = EmptyDict
    /\ CONFIG = NoConfig
    /\ pc = "start"
    /\ remaining = <<>>
    /\ category = None
    /\ action = None
    /\ action_args = <<>>
    /\ mode = "none"
    /\ queue = <<>>
    /\ codes = <<>>
    /\ func = NoFunc
    /\ call_args = <<>>
    /\ kwargs = {}
    /\ sessions = <<>>
    /\ inflight = {}
    /\ cancelled = FALSE
    /\ result = NoValue
    /\ exc = NoExc
    /\ printed = 0
    /\ invoked = <<>>
    /\ retval = NoValue
    /\ escaped = NoExc
    /\ lookups = FALSE
    /\ listing = NoListing
    /\ reg_log = <<>>
    /\ sig = <<>>
    /\ schema = NoSchema
    /\ response = NoResponse
    /\ call_keys = <<>>
    /\ extracted = NoExtract
    /\ runs = <<>>
    /\ derived = NoDerived
    /\ wrapped = NoWrapped
    /\ ra = NoExecution

\* import_all_categories(): importing scanner.api runs the decorators of
\* every category module
ImportAllCategories ==
    /\ pc = "start"
    /\ _actions' = ImportedActions
    /\ _all_funcs' = ImportedAllFuncs[all_decorated]
    /\ pc' = "parse_global"
    /\ UNCHANGED <<lookups, listing>>
    /\ UNCHANGED lib_vars
    /\ UNCHANGED <<argv, env_url, all_decorated, CONFIG, remaining, category,
                   action, action_args, mode, queue, codes, func, call_args,
                   kwargs, sessions, inflight, cancelled, result, exc,
                   printed, invoked, retval, escaped>>

\* CONFIG, remaining = parse_global_args(sys.argv[1:]), outside the try
\* statement: sys.exit() and the parser's own exit leave main()
ParseGlobalArgs ==
    /\ pc = "parse_global"
    /\ LET r == parse_global_args(argv, env_url) IN
        IF r.exc # NoExc
        THEN /\ escaped' = r.exc
             /\ pc' = "escaped"
             /\ lookups' = r.listed
             /\ UNCHANGED <<CONFIG, remaining>>
        ELSE /\ CONFIG' = r.config
             /\ remaining' = r.remaining
             /\ pc' = "dispatch"
             /\ UNCHANGED <<escaped, lookups>>
    /\ UNCHANGED listing
    /\ UNCHANGED lib_vars
    /\ UNCHANGED <<argv, env_url, all_decorated, _actions, _all_funcs,
                   category, action, action_args, mode, queue, codes, func,
                   call_args, kwargs, sessions, inflight, cancelled, result,
                   exc, printed, invoked, retval>>

\* "return v" in main()
MainReturns(v) ==
    /\ pc' = "done"
    /\ retval' = v

\* an action token that has no default
action_token_required(rest) ==
    IF rest # <<>> THEN rest[1] ELSE None

\* action = remaining[0] if remaining else "all", remaining being the
\* tokens after the category
action_token(rest) ==
    IF rest # <<>> THEN rest[1] ELSE "all"

\* main() from "if not remaining" to the call of run_action; every branch
\* starts with get_categories()
MainDispatch ==
    /\ pc = "dispatch"
    /\ lookups' = TRUE
    /\ IF remaining = <<>> THEN
           /\ listing' = CategoryNames(get_categories)
           /\ MainReturns(PyInt(1))
           /\ UNCHANGED <<category, action, action_args, mode, queue, func,
                          call_args>>
       ELSE
           LET cat == Head(remaining)
               rest == Tail(remaining)
               act == action_token(rest)
               aargs == IF rest # <<>> THEN Tail(rest) ELSE <<>>
           IN
           /\ category' = cat
           /\ action' = act
           /\ action_args' = aargs
           /\ IF cat = "all" THEN
                  /\ mode' = "all"
                  /\ queue' \in Orderings(get_categories)
                  /\ pc' = "all_next"
                  /\ UNCHANGED <<func, call_args, retval, listing>>
              ELSE IF cat \notin get_categories THEN
                  /\ listing' = CategoryNames(get_categories)
                  /\ MainReturns(PyInt(1))
                  /\ UNCHANGED <<mode, queue, func, call_args>>
              ELSE IF act = "all" THEN
                  IF get_all_func(cat) # NoFunc THEN
                      /\ mode' = "single"
                      /\ func' = get_all_func(cat)
                      /\ call_args' = <<>>
                      /\ pc' = "run_action"
                      /\ UNCHANGED <<queue, retval, listing>>
                  ELSE
                      /\ MainReturns(PyInt(1))
                      /\ UNCHANGED <<mode, queue, func, call_args, listing>>
              ELSE IF act \notin DOMAIN get_actions(cat).vals THEN
                  /\ listing' = ActionNames(cat)
                  /\ MainReturns(PyInt(1))
                  /\ UNCHANGED <<mode, queue, func, call_args>>
              ELSE
                  /\ mode' = "single"
                  /\ func' = get_actions(cat).vals[act]
                  /\ call_args' = aargs
                  /\ pc' = "run_action"
                  /\ UNCHANGED <<queue, retval, listing>>
    /\ UNCHANGED lib_vars
    /\ UNCHANGED <<argv, env_url, all_decorated, _actions, _all_funcs, CONFIG,
                   remaining, codes, kwargs, sessions, inflight, cancelled,
                   result, exc, printed, invoked, escaped>>

\* one step of max((run_action(f) for c in get_categories()
\*                  if (f := get_all_func(c))), default=0)
AllNext ==
    /\ pc = "all_next"
    /\ lookups' = TRUE
    /\ IF queue = <<>> THEN
           /\ MainReturns(PyMax(codes))
           /\ UNCHANGED <<queue, func, call_args>>
       ELSE
           /\ queue' = Tail(queue)
           /\ IF get_all_func(Head(queue)) # NoFunc THEN
                  /\ func' = get_all_func(Head(queue))
                  /\ call_args' = <<>>
                  /\ pc' = "run_action"
              ELSE
                  /\ pc' = "all_next"
                  /\ UNCHANGED <<func, call_args>>
           /\ UNCHANGED retval
    /\ UNCHANGED listing
    /\ UNCHANGED lib_vars
    /\ UNCHANGED <<argv, env_url, all_decorated, _actions, _all_funcs, CONFIG,
                   remaining, category, action, action_args, mode, codes,
                   kwargs, sessions, inflight, cancelled, result, exc,
                   printed, invoked, escaped>>

\* run_action(func, args): defopt.run(wrapped, argv=args) if args
\* else wrapped(); a SystemExit of the parser reaches main's handlers
run_action ==
    /\ pc = "run_action"
    /\ IF call_args # <<>> THEN
           LET r == defopt_parse(func, call_args, 1, {}) IN
           IF r.exc # NoExc
           THEN /\ MainReturns(handler(r.exc))
                /\ UNCHANGED kwargs
           ELSE /\ kwargs' = r.kwargs
                /\ pc' = "get_client"
                /\ UNCHANGED retval
       ELSE
           /\ kwargs' = {}
           /\ pc' = "get_client"
           /\ UNCHANGED retval
    /\ result' = NoValue
    /\ exc' = NoExc
    /\ UNCHANGED <<lookups, listing>>
    /\ UNCHANGED lib_vars
    /\ UNCHANGED <<argv, env_url, all_decorated, _actions, _all_funcs, CONFIG,
                   remaining, category, action, action_args, mode, queue,
                   codes, func, call_args, sessions, inflight, cancelled,
                   printed, invoked, escaped>>

\* wrapper/_run: "async with await get_client() as client" builds a
\* WekanClientConfig from CONFIG and a WekanClient from it, whose
\* constructor opens the httpx.AsyncClient
get_client ==
    /\ pc = "get_client"
    /\ LET config == WekanClientConfig([base_url |-> CONFIG.url,
                                        verify_ssl |-> CONFIG.verify_ssl,
                                        token |-> CONFIG.token])
       IN sessions' = Append(sessions,
                             [owner |-> func, state |-> "open", calls |-> 0,
                              requests |-> 0,
                              headers |-> _create_client(config)])
    /\ pc' = "call"
    /\ UNCHANGED <<lookups, listing>>
    /\ UNCHANGED lib_vars
    /\ UNCHANGED <<argv, env_url, all_decorated, _actions, _all_funcs, CONFIG,
                   remaining, category, action, action_args, mode, queue,
                   codes, func, call_args, kwargs, inflight, cancelled,
                   result, exc, printed, invoked, retval, escaped>>

\* "await func(client, *args, **kwargs)": binding the arguments raises
\* TypeError when a keyword-only parameter without default is missing,
\* otherwise the body of the operation starts
CallFunc ==
    /\ pc = "call"
    /\ IF func.required \subseteq kwargs THEN
           /\ inflight' = inflight \cup {func}
           /\ invoked' = Append(invoked, func)
           /\ pc' = "running"
           /\ UNCHANGED exc
       ELSE
           /\ exc' = PyException("TypeError")
           /\ pc' = "aexit"
           /\ UNCHANGED <<inflight, invoked>>
    /\ UNCHANGED <<lookups, listing>>
    /\ UNCHANGED lib_vars
    /\ UNCHANGED <<argv, env_url, all_decorated, _actions, _all_funcs, CONFIG,
                   remaining, category, action, action_args, mode, queue,
                   codes, func, call_args, kwargs, sessions, cancelled,
                   result, printed, retval, escaped>>

\* exceptions WekanClient.request lets through: httpx.TimeoutException and
\* httpx.ConnectError from the transport, httpx.HTTPStatusError from
\* raise_for_status()
TransportErrors ==
    {PyException("TimeoutException"), PyException("ConnectError"),
     PyException("HTTPStatusError")}

\* a request that is sent a second time when the first attempt failed
request_resend(s, failed) ==
    [s EXCEPT !.calls = @ + 1,
              !.requests = IF failed THEN @ + 2 ELSE @ + 1]

\* WekanClient.request on session s: one call of self.client.request,
\* whether that call fails or not
request(s, failed) ==
    [s EXCEPT !.calls = @ + 1, !.requests = @ + 1]

\* the running operation awaits client.request(...): one request is sent
\* through the session the wrapper passed in, and answered with a 2xx status
SendRequest ==
    /\ pc = "running"
    /\ func # SkippedRunAll
    /\ sessions[Len(sessions)].requests < MaxRequests
    /\ sessions' = [sessions EXCEPT
                       ![Len(sessions)] = request(@, FALSE)]
    /\ UNCHANGED <<lookups, listing>>
    /\ UNCHANGED lib_vars
    /\ UNCHANGED <<argv, env_url, all_decorated, _actions, _all_funcs, CONFIG,
                   pc, remaining, category, action, action_args, mode, queue,
                   codes, func, call_args, kwargs, inflight, cancelled,
                   result, exc, printed, invoked, retval, escaped>>

\* the request times out, the connection fails or the status is not 2xx:
\* request() raises; no action catches the exception, so it leaves the
\* operation, while a run-all catches it in its own try statement and goes on
RequestFails ==
    /\ pc = "running"
    /\ func # SkippedRunAll
    /\ sessions[Len(sessions)].requests < MaxRequests
    /\ sessions' = [sessions EXCEPT
                       ![Len(sessions)] = request(@, TRUE)]
    /\ IF func.name # "all" THEN
           /\ exc' \in TransportErrors
           /\ inflight' = inflight \ {func}
           /\ pc' = "aexit"
       ELSE
           UNCHANGED <<exc, inflight, pc>>
    /\ UNCHANGED <<lookups, listing>>
    /\ UNCHANGED lib_vars
    /\ UNCHANGED <<argv, env_url, all_decorated, _actions, _all_funcs, CONFIG,
                   remaining, category, action, action_args, mode, queue,
                   codes, func, call_args, kwargs, cancelled, result, printed,
                   invoked, retval, escaped>>

\* obj.name = v on an object: the attribute is added or replaced
setattr(obj, name, v) ==
    [x \in DOMAIN obj \cup {name} |-> IF x = name THEN v ELSE obj[x]]

\* the operation returns a value of its declared shape; the run-all of
\* authentication.py returns 0 after register() or login() gave a token
\* and it stored token and user id in cli.CONFIG
OpReturns ==
    /\ pc = "running"
    /\ result' \in Results(func)
    /\ IF func = AllFunc("authentication") /\ result' = PyInt(0)
       THEN /\ sessions[Len(sessions)].requests > 0
            /\ CONFIG' = setattr(setattr(CONFIG, "auth_token", "registered"),
                                 "user_id", "user")
       ELSE UNCHANGED CONFIG
    /\ inflight' = inflight \ {func}
    /\ pc' = "render"
    /\ UNCHANGED <<lookups, listing>>
    /\ UNCHANGED lib_vars
    /\ UNCHANGED <<argv, env_url, all_decorated, _actions, _all_funcs,
                   remaining, category, action, action_args, mode, queue,
                   codes, func, call_args, kwargs, sessions, cancelled, exc,
                   printed, invoked, retval, escaped>>

\* an action raises while it resolves a response (status error of an
\* embedded statusCode, validation error); the run-all functions catch
\* Exception and return 1 instead
OpRaises ==
    /\ pc = "running"
    /\ func.name # "all"
    /\ exc' \in {PyException("HTTPStatusError"), PyException("ValidationError")}
    /\ inflight' = inflight \ {func}
    /\ pc' = "aexit"
    /\ UNCHANGED <<lookups, listing>>
    /\ UNCHANGED lib_vars
    /\ UNCHANGED <<argv, env_url, all_decorated, _actions, _all_funcs, CONFIG,
                   remaining, category, action, action_args, mode, queue,
                   codes, func, call_args, kwargs, sessions, cancelled,
                   result, printed, invoked, retval, escaped>>

\* SIGINT while asyncio.run() runs the task: the task is cancelled, the
\* CancelledError unwinds the operation and reaches the async with
Interrupt ==
    /\ pc = "running"
    /\ cancelled' = TRUE
    /\ exc' = PyException("CancelledError")
    /\ inflight' = inflight \ {func}
    /\ pc' = "aexit"
    /\ UNCHANGED <<lookups, listing>>
    /\ UNCHANGED lib_vars
    /\ UNCHANGED <<argv, env_url, all_decorated, _actions, _all_funcs, CONFIG,
                   remaining, category, action, action_args, mode, queue,
                   codes, func, call_args, kwargs, sessions, result, printed,
                   invoked, retval, escaped>>

\* documents the wrapper prints for a result
Documents(r) ==
    IF r.t = "none" \/ isinstance_int(r) THEN 0
    ELSE IF r.t = "list" THEN r.v
    ELSE 1

\* the wrapper prints the result and computes its return value:
\* "return result if isinstance(result, int) else 0"
Render ==
    /\ pc = "render"
    /\ printed' = printed + Documents(result)
    /\ result' = IF isinstance_int(result) THEN result ELSE PyInt(0)
    /\ pc' = "aexit"
    /\ UNCHANGED <<lookups, listing>>
    /\ UNCHANGED lib_vars
    /\ UNCHANGED <<argv, env_url, all_decorated, _actions, _all_funcs, CONFIG,
                   remaining, category, action, action_args, mode, queue,
                   codes, func, call_args, kwargs, sessions, inflight,
                   cancelled, exc, invoked, retval, escaped>>

\* printing raises (json.dumps of the dumped model, or print itself)
RenderRaises ==
    /\ pc = "render"
    /\ Documents(result) > 0
    /\ exc' \in {PyException("TypeError"), PyException("BrokenPipeError")}
    /\ pc' = "aexit"
    /\ UNCHANGED <<lookups, listing>>
    /\ UNCHANGED lib_vars
    /\ UNCHANGED <<argv, env_url, all_decorated, _actions, _all_funcs, CONFIG,
                   remaining, category, action, action_args, mode, queue,
                   codes, func, call_args, kwargs, sessions, inflight,
                   cancelled, result, printed, invoked, retval, escaped>>

\* an exit that closes the transport only when the block ended normally
aexit_only_on_success ==
    /\ pc = "aexit"
    /\ sessions' = IF exc = NoExc
                   THEN [sessions EXCEPT ![Len(sessions)].state = "closed"]
                   ELSE sessions
    /\ pc' = "wrapper_exit"
    /\ UNCHANGED <<lookups, listing>>
    /\ UNCHANGED lib_vars
    /\ UNCHANGED <<argv, env_url, all_decorated, _actions, _all_funcs, CONFIG,
                   remaining, category, action, action_args, mode, queue,
                   codes, func, call_args, kwargs, inflight, cancelled,
                   result, exc, printed, invoked, retval, escaped>>

\* an exit that never closes the transport
aexit_never_closes ==
    /\ pc = "aexit"
    /\ pc' = "wrapper_exit"
    /\ UNCHANGED <<lookups, listing>>
    /\ UNCHANGED lib_vars
    /\ UNCHANGED <<argv, env_url, all_decorated, _actions, _all_funcs, CONFIG,
                   remaining, category, action, action_args, mode, queue,
                   codes, func, call_args, kwargs, sessions, inflight,
                   cancelled, result, exc, printed, invoked, retval, escaped>>

\* WekanClient.__aexit__: await self.client.aclose(), on every way out of
\* the async with block
aexit ==
    /\ pc = "aexit"
    /\ sessions' = [sessions EXCEPT ![Len(sessions)].state = "closed"]
    /\ pc' = "wrapper_exit"
    /\ UNCHANGED <<lookups, listing>>
    /\ UNCHANGED lib_vars
    /\ UNCHANGED <<argv, env_url, all_decorated, _actions, _all_funcs, CONFIG,
                   remaining, category, action, action_args, mode, queue,
                   codes, func, call_args, kwargs, inflight, cancelled,
                   result, exc, printed, invoked, retval, escaped>>

\* asyncio.run(_run()) ends: a cancelled task makes it raise
\* KeyboardInterrupt, an exception of the task is re-raised, otherwise the
\* value of _run() is the value of run_action
WrapperExit ==
    /\ pc = "wrapper_exit"
    /\ IF cancelled THEN
           /\ MainReturns(handler(KeyboardInterrupt))
           /\ UNCHANGED codes
       ELSE IF exc # NoExc THEN
           /\ MainReturns(handler(exc))
           /\ UNCHANGED codes
       ELSE IF mode = "all" THEN
           /\ codes' = Append(codes, result)
           /\ pc' = "all_next"
           /\ UNCHANGED retval
       ELSE
           /\ MainReturns(result)
           /\ UNCHANGED codes
    /\ UNCHANGED <<lookups, listing>>
    /\ UNCHANGED lib_vars
    /\ UNCHANGED <<argv, env_url, all_decorated, _actions, _all_funcs, CONFIG,
                   remaining, category, action, action_args, mode, queue,
                   func, call_args, kwargs, sessions, inflight, cancelled,
                   result, exc, printed, invoked, escaped>>

Next ==
    \/ ImportAllCategories
    \/ ParseGlobalArgs
    \/ MainDispatch
    \/ AllNext
    \/ run_action
    \/ get_client
    \/ CallFunc
    \/ SendRequest
    \/ RequestFails
    \/ OpReturns
    \/ OpRaises
    \/ Interrupt
    \/ Render
    \/ RenderRaises
    \/ aexit
    \/ WrapperExit

Spec == Init /\ [][Next]_vars

\* main() is one thread of control that keeps running until it returns
FairSpec == Spec /\ WF_vars(Next)

-----------------------------------------------------------------------------
(* The library outside main(): decorators applied by category modules,    *)
(* the adapter applied to a function, the resolver applied to a response  *)

\* decorator calls in one behaviour
MaxRegs == 3

\* functions a category module may decorate with @action(): get_boards and
\* boards_get are two functions of boards.py that both register as "get"
RegFunctions == {
    [module |-> "boards", name |-> "get", fn |-> "get_boards",
     required |-> {}, ret |-> "list"],
    [module |-> "boards", name |-> "get", fn |-> "boards_get",
     required |-> {}, ret |-> "model"],
    [module |-> "boards", name |-> "get_board", fn |-> "get_board",
     required |-> {"--board-id"}, ret |-> "model"],
    [module |-> "lists", name |-> "get_all", fn |-> "get_all_lists",
     required |-> {"--board-id"}, ret |-> "list"] }

\* modules that may decorate a function with @all_action
RegModules == {"boards", "lists"}

\* the state before main() is called, with an empty registry
LibInit ==
    /\ argv = <<>>
    /\ env_url = None
    /\ all_decorated = {}
    /\ _actions = [k \in {} |-> EmptyActions]
    /\ _all_funcs = EmptyDict
    /\ CONFIG = NoConfig
    /\ pc = "start"
    /\ remaining = <<>>
    /\ category = None
    /\ action = None
    /\ action_args = <<>>
    /\ mode = "none"
    /\ queue = <<>>
    /\ codes = <<>>
    /\ func = NoFunc
    /\ call_args = <<>>
    /\ kwargs = {}
    /\ sessions = <<>>
    /\ inflight = {}
    /\ cancelled = FALSE
    /\ result = NoValue
    /\ exc = NoExc
    /\ printed = 0
    /\ invoked = <<>>
    /\ retval = NoValue
    /\ escaped = NoExc
    /\ lookups = FALSE
    /\ listing = NoListing
    /\ reg_log = <<>>
    /\ sig = <<>>
    /\ schema = NoSchema
    /\ response = NoResponse
    /\ call_keys = <<>>
    /\ extracted = NoExtract
    /\ runs = <<>>
    /\ derived = NoDerived
    /\ wrapped = NoWrapped
    /\ ra = NoExecution

\* a module applies @action() to f; the log keeps what the key held before
\* and after the call and what the call raised
RegisterAction(f) ==
    /\ Len(reg_log) < MaxRegs
    /\ _actions' = action_decorator(_actions, f)
    /\ reg_log' = Append(reg_log,
           [kind |-> "action", f |-> f,
            before |-> IF f.name \in DOMAIN get_actions(f.module).vals
                       THEN get_actions(f.module).vals[f.name] ELSE NoFunc,
            after |-> action_decorator(_actions, f)[f.module].vals[f.name],
            raised |-> NoExc])
    /\ UNCHANGED <<_all_funcs, dispatch_vars, adapter_vars, resolver_vars,
                   order_vars, derive_vars, wrap_vars, runall_vars>>

\* a module applies @all_action to its function all
RegisterAllAction(m) ==
    /\ Len(reg_log) < MaxRegs
    /\ _all_funcs' = all_action(_all_funcs, AllFunc(m))
    /\ reg_log' = Append(reg_log,
           [kind |-> "all_action", f |-> AllFunc(m),
            before |-> get_all_func(m), after |-> AllFunc(m),
            raised |-> NoExc])
    /\ UNCHANGED <<_actions, dispatch_vars, adapter_vars, resolver_vars,
                   order_vars, derive_vars, wrap_vars, runall_vars>>

RegistryNext ==
    \/ \E f \in RegFunctions : RegisterAction(f)
    \/ \E m \in RegModules : RegisterAllAction(m)

RegistrySpec == LibInit /\ [][RegistryNext]_vars

\* create_action_wrapper is applied, once, to a function with signature s
Adapt ==
    /\ ~schema.made
    /\ \E s \in Signatures :
          /\ sig' = s
          /\ schema' = create_action_wrapper(s)
    /\ UNCHANGED <<_actions, _all_funcs, reg_log, dispatch_vars,
                   resolver_vars, order_vars, derive_vars, wrap_vars, runall_vars>>

\* an operation resolves the response it received with as_model(T, *ks)
AsModel ==
    /\ extracted.op = "none"
    /\ \E r \in Responses, ks \in KeyLists :
          /\ response' = r
          /\ call_keys' = ks
          /\ extracted' = [op |-> "as_model", exc |-> as_model(r, ks, 1).exc,
                           models |-> as_model(r, ks, 1).models]
    /\ UNCHANGED <<_actions, _all_funcs, reg_log, dispatch_vars,
                   adapter_vars, order_vars, derive_vars, wrap_vars, runall_vars>>

\* an operation resolves a response with as_list(T, key), or with
\* as_list(T) as get_all_checklists does
AsList ==
    /\ extracted.op = "none"
    /\ \E r \in Responses, ks \in {<<>>, <<"items">>, <<"c">>} :
          /\ response' = r
          /\ call_keys' = ks
          /\ extracted' = [op |-> "as_list", exc |-> as_list(r, ks).exc,
                           models |-> as_list(r, ks).models]
    /\ UNCHANGED <<_actions, _all_funcs, reg_log, dispatch_vars,
                   adapter_vars, order_vars, derive_vars, wrap_vars, runall_vars>>

LibraryNext == Adapt \/ AsModel \/ AsList

LibrarySpec == LibInit /\ [][LibraryNext]_vars

-----------------------------------------------------------------------------
(* Several processes over the same registry *)

\* main() has not been called
MainIdle ==
    /\ argv = <<>>
    /\ env_url = None
    /\ CONFIG = NoConfig
    /\ pc = "start"
    /\ remaining = <<>>
    /\ category = None
    /\ action = None
    /\ action_args = <<>>
    /\ mode = "none"
    /\ queue = <<>>
    /\ codes = <<>>
    /\ func = NoFunc
    /\ call_args = <<>>
    /\ kwargs = {}
    /\ sessions = <<>>
    /\ inflight = {}
    /\ cancelled = FALSE
    /\ result = NoValue
    /\ exc = NoExc
    /\ printed = 0
    /\ invoked = <<>>
    /\ retval = NoValue
    /\ escaped = NoExc
    /\ lookups = FALSE
    /\ listing = NoListing

\* no library call has been made
LibIdle ==
    /\ reg_log = <<>>
    /\ sig = <<>>
    /\ schema = NoSchema
    /\ response = NoResponse
    /\ call_keys = <<>>
    /\ extracted = NoExtract
    /\ runs = <<>>
    /\ derived = NoDerived
    /\ wrapped = NoWrapped
    /\ ra = NoExecution

\* runs of top-level all in one behaviour
MaxRuns == 2

\* the registry after import_all_categories(), the same in every process
OrderInit ==
    /\ MainIdle
    /\ LibIdle
    /\ all_decorated \in SUBSET Modules
    /\ _actions = ImportedActions
    /\ _all_funcs = ImportedAllFuncs[all_decorated]

\* the run-alls that "run_action(f) for c in cats if (f := get_all_func(c))"
\* executes for the list cats
Executed(cats) ==
    LET owners == SelectSeq(cats, LAMBDA c : get_all_func(c) # NoFunc)
    IN [i \in 1..Len(owners) |-> get_all_func(owners[i])]

\* a process runs "wekan-scanner --url U all": get_categories() is
\* list(set(...) | set(...)), whose order follows the string hashes of
\* that process
TopLevelAll ==
    /\ Len(runs) < MaxRuns
    /\ \E q \in Orderings(get_categories) :
          runs' = Append(runs, [order |-> q, executed |-> Executed(q)])
    /\ UNCHANGED <<_actions, _all_funcs, dispatch_vars, reg_log,
                   adapter_vars, resolver_vars, derive_vars, wrap_vars,
                   runall_vars>>

OrderNext == TopLevelAll

OrderSpec == OrderInit /\ [][OrderNext]_vars

-----------------------------------------------------------------------------
(* A category module decorates one function with @action(name) *)

DeriveInit == LibInit

\* decorator(func): the category is the last component of func.__module__,
\* the action name is the custom name if it is true and derived from
\* func.__name__ otherwise, and the function is stored under both
Decorate ==
    /\ derived.op = "none"
    /\ \E m \in ModulePaths, fn \in FuncNames, n \in ExplicitNames :
          LET cat == m[Len(m)]
              an == IF n # <<>> THEN n ELSE derive(cat, fn)
          IN /\ derived' = [op |-> "action", module |-> m, func_name |-> fn,
                            name |-> n, category |-> cat,
                            action_name |-> an]
             /\ _actions' = action_decorator(_actions,
                    [module |-> cat, name |-> an, fn |-> fn,
                     required |-> {}, ret |-> "model"])
    /\ UNCHANGED <<_all_funcs, dispatch_vars, reg_log, adapter_vars,
                   resolver_vars, order_vars, wrap_vars, runall_vars>>

DeriveNext == Decorate

DeriveSpec == DeriveInit /\ [][DeriveNext]_vars

-----------------------------------------------------------------------------
(* A transport response is wrapped in an APIResponse *)

WrapInit == LibInit

\* APIResponse(response), as get/post/put/delete do with what request()
\* returned, or as any caller does with a response of its own
Wrap ==
    /\ wrapped.op = "none"
    /\ \E b \in Bodies, st \in TransportStatuses :
          wrapped' = [op |-> "init", body |-> b, status |-> st,
                      raised |-> APIResponse_init(b, st).raised,
                      json |-> APIResponse_init(b, st).json]
    /\ UNCHANGED <<_actions, _all_funcs, dispatch_vars, reg_log,
                   adapter_vars, resolver_vars, order_vars, derive_vars,
                   runall_vars>>

WrapNext == Wrap

WrapSpec == WrapInit /\ [][WrapNext]_vars

-----------------------------------------------------------------------------
(* The wrapper awaits the run-all of one category *)

RunAllInit == LibInit

RunAllFrame ==
    UNCHANGED <<_actions, _all_funcs, dispatch_vars, reg_log, adapter_vars,
                resolver_vars, order_vars, derive_vars, wrap_vars>>

\* "await func(client)" for the run-all of category c
StartRunAll(c) ==
    /\ ra.pc = "none"
    /\ ra' = [ra EXCEPT !.pc = "try", !.cat = c, !.i = 1]
    /\ RunAllFrame

\* the statement at ra.i succeeds
StepOk ==
    /\ ra.pc = "try"
    /\ LET body == RunAllBodies[ra.cat]
           s == body.steps[ra.i]
           after == [ra EXCEPT
               !.created = IF s.kind = "create" THEN @ \cup {s.res} ELSE @,
               !.held = IF s.kind = "create" /\ s.res \in Kept(body)
                        THEN @ \cup {s.res} ELSE @,
               !.deleted = IF s.kind = "delete" THEN @ \cup {s.res} ELSE @,
               !.own = IF s.kind = "open" THEN "open" ELSE @]
       IN /\ s.kind # "raises"
          /\ ra' = IF s.ok = 0
                    THEN [after EXCEPT !.pc = "finally", !.ret = PyInt(0)]
                    ELSE [after EXCEPT !.i = s.ok]
    /\ RunAllFrame

\* the statement at ra.i raises or returns 1: a request failed, a response
\* did not validate, an assertion did not hold; what a failed POST was to
\* create does not exist; a failed DELETE was sent all the same
StepFails ==
    /\ ra.pc = "try"
    /\ LET s == RunAllBodies[ra.cat].steps[ra.i]
           after == [ra EXCEPT
               !.deleted = IF s.kind = "delete" THEN @ \cup {s.res} ELSE @]
       IN /\ s.kind # "open"
          /\ ra' = IF s.fail = 0
                    THEN [after EXCEPT !.pc = "finally", !.ret = PyInt(1)]
                    ELSE [after EXCEPT !.i = s.fail]
    /\ RunAllFrame

\* the finally block begins: custom_fields.all awaits
\* authenticated_client.__aexit__() before anything else
EnterFinally ==
    /\ ra.pc = "finally"
    /\ ra' = [ra EXCEPT
                 !.pc = "cleanup", !.i = 1,
                 !.own = IF RunAllBodies[ra.cat].closes_first /\ @ = "open"
                         THEN "closed" ELSE @]
    /\ RunAllFrame

\* one "if resource: try: delete except: warn" of the finally block: a
\* closed httpx client raises RuntimeError before anything is sent, an
\* open one sends the DELETE, whose failure is caught like the first
CleanupStep ==
    /\ ra.pc = "cleanup"
    /\ ra.i <= Len(RunAllBodies[ra.cat].cleanup)
    /\ LET c == RunAllBodies[ra.cat].cleanup[ra.i] IN
       IF c.res \notin ra.held THEN
           ra' = [ra EXCEPT !.i = @ + 1]
       ELSE IF c.via = "own" /\ ra.own = "closed" THEN
           ra' = [ra EXCEPT !.i = @ + 1, !.late = @ \cup {c.res}]
       ELSE
           \E ok \in BOOLEAN :
              ra' = [ra EXCEPT
                  !.i = @ + 1,
                  !.deleted = @ \cup {c.res},
                  !.failed = IF ok THEN @ ELSE @ \cup {c.res}]
    /\ RunAllFrame

\* the run-all returns the value of its try block
RunAllReturns ==
    /\ ra.pc = "cleanup"
    /\ ra.i > Len(RunAllBodies[ra.cat].cleanup)
    /\ ra' = [ra EXCEPT !.pc = "done"]
    /\ RunAllFrame

RunAllNext ==
    \/ \E c \in DOMAIN RunAllBodies : StartRunAll(c)
    \/ StepOk
    \/ StepFails
    \/ EnterFinally
    \/ CleanupStep
    \/ RunAllReturns

RunAllSpec == RunAllInit /\ [][RunAllNext]_vars

TypeOK ==
    /\ pc \in {"start", "parse_global", "dispatch", "all_next", "run_action",
               "get_client", "call", "running", "render", "aexit",
               "wrapper_exit", "done", "escaped"}
    /\ mode \in {"none", "all", "single"}

-----------------------------------------------------------------------------
(* Properties *)

AllClosed == \A i \in 1..Len(sessions) : sessions[i].state = "closed"

OpenSessions == {i \in 1..Len(sessions) : sessions[i].state = "open"}

RequestsSent == \E i \in 1..Len(sessions) : sessions[i].requests > 0

\* categories the registry knows
Registered == DOMAIN _actions \cup DOMAIN _all_funcs

\* C1: every session the dispatcher opened is closed when main() is over,
\* whether the operation returned, raised, the rendering raised or the
\* invocation was cancelled
C1_SessionsClosedOnExit == pc \in {"done", "escaped"} => AllClosed

\* C1 witness: main() returned after an exception left the async with
\* block of a session it had opened
C1_Witness == pc = "done" /\ sessions # <<>> /\ exc # NoExc

\* run-alls the registry holds
RunAlls == {_all_funcs[c] : c \in DOMAIN _all_funcs}

\* v is the largest of the reported exit codes, 0 when there are none
IsMaxOf(v, reported) ==
    IF reported = <<>> THEN v = 0
    ELSE /\ \E i \in 1..Len(reported) : reported[i].v = v
         /\ \A i \in 1..Len(reported) : reported[i].v <= v

\* only run-alls were invoked, none of them twice
OnlyRunAllsAtMostOnce ==
    /\ \A i \in 1..Len(invoked) : invoked[i] \in RunAlls
    /\ \A i, j \in 1..Len(invoked) : i # j => invoked[i] # invoked[j]

\* every run-all was invoked and dispatch returned the largest exit code
EveryRunAllAndMax ==
    /\ \A f \in RunAlls : \E i \in 1..Len(invoked) : invoked[i] = f
    /\ Len(codes) = Cardinality(RunAlls)
    /\ IsMaxOf(sys_exit(retval), codes)

\* C2 as stated: top-level all always runs every run-all exactly once and
\* returns the largest of their exit codes
C2_Original ==
    (pc = "done" /\ mode = "all") => (OnlyRunAllsAtMostOnce /\ EveryRunAllAndMax)

\* C2 amended: top-level all runs only run-alls, each at most once; when no
\* invocation is interrupted it runs every one exactly once, whatever the
\* earlier ones returned, and returns the largest exit code (0 when there
\* is none); an interruption ends dispatch with 130
C2_AllRunsEveryRunAll ==
    (pc = "done" /\ mode = "all") =>
        /\ OnlyRunAllsAtMostOnce
        /\ ~cancelled => EveryRunAllAndMax
        /\ cancelled => sys_exit(retval) = EXIT_INTERRUPTED

\* C2 witness: two run-alls were executed although the first one failed,
\* and a category without a run-all was skipped
C2_Witness ==
    /\ pc = "done" /\ mode = "all" /\ ~cancelled
    /\ Len(codes) = 2 /\ codes[1].v = 1 /\ codes[2].v = 0
    /\ DOMAIN _actions \ DOMAIN _all_funcs # {}

\* C3: in top-level all at most one operation is in flight, at most one
\* dispatcher session is open, and every session but the newest is closed
C3_AllIsSequential ==
    mode = "all" =>
        /\ Cardinality(inflight) <= 1
        /\ Cardinality(OpenSessions) <= 1
        /\ \A i \in 1..(Len(sessions) - 1) : sessions[i].state = "closed"

\* C3 witness: the second run-all is executing
C3_Witness == mode = "all" /\ Len(sessions) = 2 /\ pc = "running"

\* the command path names no operation the registry can run
UnknownCategory == remaining # <<>> /\ remaining[1] \notin Registered \cup {"all"}

UnknownAction ==
    /\ Len(remaining) >= 2
    /\ remaining[1] \in Registered
    /\ remaining[2] # "all"
    /\ remaining[1] \in DOMAIN _actions =>
           remaining[2] \notin DOMAIN _actions[remaining[1]].vals

NoRunAll ==
    /\ remaining # <<>>
    /\ remaining[1] \in Registered \ DOMAIN _all_funcs
    /\ Len(remaining) >= 2 => remaining[2] = "all"

\* C4: an unregistered category, an unregistered action, or a category
\* without run-all given no action or "all" ends with exit code 1, no
\* session opened and no operation invoked
C4_LookupFailures ==
    (pc \notin {"start", "parse_global", "dispatch"}
     /\ (UnknownCategory \/ UnknownAction \/ NoRunAll)) =>
        /\ pc = "done"
        /\ sys_exit(retval) = 1
        /\ sessions = <<>>
        /\ invoked = <<>>

\* C4 witness: "<category> all" for a registered category without run-all
C4_Witness ==
    /\ pc = "done" /\ NoRunAll /\ Len(remaining) >= 2
    /\ DOMAIN _all_funcs # {}

\* the operation or a run-all reported a failure
ReportedFailure ==
    \/ mode = "single" /\ result.t = "bool" /\ result.v = 0
    \/ mode = "single" /\ result.t = "int" /\ result.v # 0
    \/ \E i \in 1..Len(codes) : codes[i].v # 0

\* the schema of the resolved action rejects the argument list
ArgsRejected ==
    /\ mode = "single"
    /\ func.name # "all"
    /\ defopt_parse(func, call_args, 1, {}).exc = SystemExit(PyInt(2))

\* dispatch ended without running anything although a command was given
\* to a single category: every such end is a usage or lookup error
UsageError ==
    \/ remaining = <<>>
    \/ UnknownCategory \/ UnknownAction \/ NoRunAll
    \/ ArgsRejected

\* main() ended in failure
Failed == cancelled \/ exc # NoExc \/ ReportedFailure \/ UsageError

\* C5 as stated: the exit code is 0, 1 or 130; 0 only on success, 130
\* only on interruption, 1 for every other failure
C5_ExitCodes ==
    pc = "done" =>
        /\ sys_exit(retval) \in {0, 1, EXIT_INTERRUPTED}
        /\ sys_exit(retval) = 0 => ~Failed
        /\ sys_exit(retval) = EXIT_INTERRUPTED => cancelled
        /\ (Failed /\ ~cancelled) => sys_exit(retval) = 1

\* C6 as stated: a boolean or integer result of an action is not printed
\* and the exit code is 0 for true and non-zero for false
C6_BoolResultExitCode ==
    (pc = "done" /\ mode = "single" /\ func.name # "all"
     /\ exc = NoExc /\ ~cancelled /\ invoked # <<>>
     /\ func.ret \in {"bool", "int"}) =>
        /\ printed = 0
        /\ result = PyBool(TRUE) => sys_exit(retval) = 0
        /\ result = PyBool(FALSE) => sys_exit(retval) # 0

\* C7 as stated: arguments the schema rejects end dispatch with exit code 1
C7_ArgumentErrorExitsOne ==
    (pc = "done" /\ ArgsRejected) => sys_exit(retval) = 1

\* C8 as stated: when the schema rejects the arguments of a single action,
\* no session is opened and no request is sent
C8_ParseBeforeSession ==
    ArgsRejected => (sessions = <<>> /\ ~RequestsSent)

\* C9 as stated: main() always ends by returning an integer, never by
\* letting an exception or SystemExit through
C9_NothingEscapes ==
    /\ pc # "escaped"
    /\ escaped = NoExc
    /\ pc = "done" => isinstance_int(retval)

\* C10: once an invocation is interrupted, main() ends, returns 130 and
\* has closed the session
C10_InterruptReturns130 ==
    cancelled ~> (pc = "done" /\ sys_exit(retval) = EXIT_INTERRUPTED /\ AllClosed)

\* C10 witness: main() returned after an operation was interrupted
C10_Witness == pc = "done" /\ cancelled /\ sessions # <<>> /\ invoked # <<>>

\* exit status of the process: of the value main() returned, or of the
\* SystemExit that left main()
ExitStatus == IF pc = "escaped" THEN sys_exit(escaped.code) ELSE sys_exit(retval)

\* the endpoint is given by --url/-u with a value or by WEKAN_URL
EndpointSupplied ==
    \/ ~Falsy(env_url)
    \/ \E i \in 1..(Len(argv) - 1) :
           argv[i] \in {"--url", "-u"} /\ argv[i + 1] \notin OptionTokens

\* -h or --help stands somewhere on the command line
HelpRequested == \E i \in 1..Len(argv) : argv[i] \in {"--help", "-h"}

\* a global flag that takes a value is followed by none
MalformedGlobalFlags ==
    \E i \in 1..Len(argv) :
        /\ argv[i] \in GlobalValueFlags
        /\ i = Len(argv) \/ argv[i + 1] \in OptionTokens

Conflicting(i) ==
    /\ reg_log[i].kind = "action"
    /\ reg_log[i].before \notin {NoFunc, reg_log[i].f}

\* C12 as stated: a registration under a key that a different operation
\* holds raises DuplicateActionError (a RegistrationError) and leaves the
\* entry as it was
C12_DuplicateRegistrationFails ==
    \A i \in 1..Len(reg_log) :
        Conflicting(i) =>
            /\ reg_log[i].raised.type \in
                   {"DuplicateActionError", "RegistrationError"}
            /\ reg_log[i].after = reg_log[i].before

\* the pair (cat, name) was passed to some registration
EverRegistered(cat, name) ==
    \E i \in 1..Len(reg_log) :
        /\ reg_log[i].kind = "action"
        /\ reg_log[i].f.module = cat
        /\ reg_log[i].f.name = name

\* C13 as stated: get_actions(category)[name] is the operation passed to
\* the registration of (category, name), for every registration made, and
\* a pair that was never registered is not in get_actions(category)
C13_LookupReturnsRegistered ==
    /\ \A i \in 1..Len(reg_log) :
           reg_log[i].kind = "action" =>
               LET f == reg_log[i].f IN
               /\ f.name \in DOMAIN get_actions(f.module).vals
               /\ get_actions(f.module).vals[f.name] = f
    /\ \A cat \in RegModules \cup {"bogus"} :
           \A name \in {f.name : f \in RegFunctions} \cup {"bogus"} :
               ~EverRegistered(cat, name) =>
                   name \notin DOMAIN get_actions(cat).vals

\* action names registered for cat, each once, in the order of their first
\* registration
RECURSIVE RegistrationOrder(_, _, _)
RegistrationOrder(cat, i, acc) ==
    IF i > Len(reg_log) THEN acc
    ELSE LET r == reg_log[i] IN
         IF /\ r.kind = "action"
            /\ r.f.module = cat
            /\ \A j \in 1..Len(acc) : acc[j] # r.f.name
         THEN RegistrationOrder(cat, i + 1, Append(acc, r.f.name))
         ELSE RegistrationOrder(cat, i + 1, acc)

\* cat has a run-all descriptor
HasRunAll(cat) ==
    \E i \in 1..Len(reg_log) :
        reg_log[i].kind = "all_action" /\ reg_log[i].f.module = cat

\* C14: list_actions(category) is the category's action names in
\* registration order, preceded by "all" exactly when the category has a
\* run-all
C14_ListActionsOrder ==
    \A cat \in RegModules \cup {"bogus"} :
        list_actions(cat) =
            (IF HasRunAll(cat) THEN <<"all">> ELSE <<>>)
                \o RegistrationOrder(cat, 1, <<>>)

\* C14 witness: boards has two action names and a run-all that was
\* registered after the first of them
C14_Witness ==
    /\ HasRunAll("boards")
    /\ Len(RegistrationOrder("boards", 1, <<>>)) = 2
    /\ reg_log[1].kind = "action"

\* the first parameter of the adapted function is the session slot
SessionFirst == sig # <<>> /\ sig[1].name = "client"

\* C15: for a function whose first parameter is the session slot, the
\* schema of the wrapper has no session parameter and has every other
\* parameter, in declared order, with its kind and its default (a
\* parameter is required exactly when its default is Empty)
C15_SchemaDropsSession ==
    (schema.made /\ SessionFirst) =>
        /\ schema.exc = NoExc
        /\ Len(schema.params) = Len(sig) - 1
        /\ \A i \in 1..Len(schema.params) :
               /\ schema.params[i] = sig[i + 1]
               /\ schema.params[i].name # "client"

\* C15 witness: new_board's signature was adapted: a required parameter
\* and two parameters with defaults follow the session slot
C15_Witness ==
    /\ schema.made
    /\ SessionFirst
    /\ Len(sig) = 4
    /\ sig[2].default = Empty
    /\ sig[3].default # Empty

\* C16 as stated: adapting a function without parameters, or whose first
\* parameter is not the session slot, raises MalformedOperationError and
\* produces no schema
C16_MalformedOperationRejected ==
    (schema.made /\ ~SessionFirst) =>
        schema.exc.type = "MalformedOperationError"

\* positions of the candidate keys that the top level of the body holds
Present == {i \in 1..Len(call_keys) : Contains(response, call_keys[i])}

FirstPresent == CHOOSE i \in Present : \A j \in Present : i <= j

\* C17: as_model builds T from the value under the first candidate key
\* that is present at the top level of the body; with no candidate key
\* present, or with no keys, it builds T from the whole body, so a body
\* that holds T's fields itself gives T without an error
C17_AsModelFirstPresentKey ==
    extracted.op = "as_model" =>
        LET expected == IF Present # {}
                        THEN Construct(response.map[call_keys[FirstPresent]])
                        ELSE ConstructBody(response)
        IN /\ extracted.exc = expected.exc
           /\ extracted.models = expected.models
           /\ (Present = {} /\ Contains(response, "id")) =>
                  /\ extracted.exc = NoExc
                  /\ extracted.models = <<[id |-> response.map["id"]]>>

\* C17 witness: as_model(T, "a", "b") on a body that holds "b" and not "a"
\* gave the object under "b"
C17_Witness ==
    /\ extracted.op = "as_model"
    /\ call_keys = <<"a", "b">>
    /\ Present = {2}
    /\ extracted.models = <<[id |-> "b1"]>>

\* C18 as stated, for the calls that pass a key: without an entry under
\* key the result is the empty sequence and no error; with one, the result
\* has one T per element, in order (an element T cannot be built from is
\* the only error)
C18_AsListPerElement ==
    (extracted.op = "as_list" /\ Len(call_keys) = 1) =>
        IF ~Contains(response, call_keys[1])
        THEN extracted.exc = NoExc /\ extracted.models = <<>>
        ELSE LET items == response.map[call_keys[1]] IN
             IF \A i \in 1..Len(items) : Construct(items[i]).exc = NoExc
             THEN /\ extracted.exc = NoExc
                  /\ Len(extracted.models) = Len(items)
                  /\ \A i \in 1..Len(items) :
                         extracted.models[i] = [id |-> items[i].id]
             ELSE extracted.exc = PyException("ValidationError")

\* C19 as stated: when a token was supplied (--token or WEKAN_API_TOKEN
\* end in CONFIG.token, which get_client passes as token=), every session
\* that has sent a request sends it as its x-wekan-token header
C19_TokenAttached ==
    \A i \in 1..Len(sessions) :
        (~Falsy(CONFIG.token) /\ sessions[i].requests > 0) =>
            sessions[i].headers.x_wekan_token = CONFIG.token

\* C20 as stated: once parse_global_args has set CONFIG, no step of main()
\* and no operation it runs changes it
C20_ConfigNeverModified == [][CONFIG.set => CONFIG' = CONFIG]_vars

\* C21: a transport failure during an action ends a single-action dispatch
\* with exit code 1, and every client call has issued exactly one transport
\* request, failed or not
C21_TransportFailureExitsOne ==
    /\ \A i \in 1..Len(sessions) : sessions[i].requests = sessions[i].calls
    /\ (pc = "done" /\ mode = "single" /\ func.name # "all"
           /\ exc \in TransportErrors)
          => /\ retval = PyInt(1)
             /\ escaped = NoExc

C21_Witness ==
    /\ pc = "done"
    /\ mode = "single"
    /\ func.name # "all"
    /\ exc = PyException("TimeoutException")
    /\ sessions[Len(sessions)].calls = 1
    /\ sessions[Len(sessions)].requests = 1
    /\ retval = PyInt(1)

\* the command line left after the global flags is "<category>" alone or
\* "<category> all"
BareCategory == Len(remaining) = 1
CategoryAll == Len(remaining) = 2 /\ remaining[2] = "all"

\* C22: a registered category followed by no action token is dispatched as
\* "<category> all" is: the action is "all", and if the category owns a
\* run-all it is executed exactly once with one acquired session and main
\* returns the code the run-all reported; without a run-all nothing runs and
\* main returns 1
C22_BareCategoryRunsAll ==
    (pc = "done" /\ ~cancelled /\ (BareCategory \/ CategoryAll)
       /\ remaining[1] \in get_categories)
      => /\ action = "all"
         /\ IF remaining[1] \in DOMAIN _all_funcs
            THEN /\ invoked = <<_all_funcs[remaining[1]]>>
                 /\ Len(sessions) = 1
                 /\ sessions[1].owner = _all_funcs[remaining[1]]
                 /\ isinstance_int(result)
                 /\ retval = result
            ELSE /\ invoked = <<>>
                 /\ sessions = <<>>
                 /\ retval = PyInt(1)

C22_Witness ==
    /\ pc = "done"
    /\ BareCategory
    /\ remaining[1] \in DOMAIN _all_funcs
    /\ invoked = <<_all_funcs[remaining[1]]>>
    /\ sessions[1].requests > 0
    /\ retval = PyInt(0)

\* C23: when no token remains after the global flags, main invokes no
\* operation, returns 1, and the listing it writes names every registered
\* category together with that category's actions
C23_EmptyCommandListsActions ==
    (pc = "done" /\ remaining = <<>>)
      => /\ invoked = <<>>
         /\ sessions = <<>>
         /\ retval = PyInt(1)
         /\ DOMAIN listing.entries = get_categories
         /\ \A c \in get_categories : listing.entries[c] = list_actions(c)

RECURSIVE FirstSubcommand(_, _)
FirstSubcommand(av, i) ==
    IF i > Len(av) THEN i
    ELSE IF av[i] \in GlobalValueFlags THEN FirstSubcommand(av, i + 2)
    ELSE IF av[i] \in GlobalBoolFlags THEN FirstSubcommand(av, i + 1)
    ELSE i

\* C26: global flags are recognised only before the first subcommand token;
\* every token after the category and action tokens reaches the action's
\* argument parser unchanged and in order, a token that spells a global flag
\* included
C26_TrailingTokensReachAction ==
    (pc = "run_action" /\ mode = "single" /\ action # "all")
      => call_args = SubSeq(argv, FirstSubcommand(argv, 1) + 2, Len(argv))

\* C25: for a fixed set of registered categories, top-level all executes
\* the run-alls in the same order on every run
C25_SameOrderEveryRun ==
    \A i, j \in 1..Len(runs) : runs[i].executed = runs[j].executed

\* the decorator was applied without a custom name
Undecorated == derived.op = "action" /\ derived.name = <<>>

\* the function is registered in its category under the action name
RegisteredAs(cat, an) ==
    /\ cat \in DOMAIN _actions
    /\ an \in DOMAIN _actions[cat].vals
    /\ _actions[cat].vals[an].fn = derived.func_name

EmbeddedError(b) ==
    b.kind = "object" /\ b.mentions /\ b.code.t = "int" /\ b.code.v >= 400

\* C30: constructing an APIResponse raises an HTTP status error exactly
\* when the body is a JSON object whose statusCode is 400 or greater,
\* whatever the transport status; otherwise construction succeeds and
\* exposes the parsed body unchanged when it is valid JSON and an empty
\* mapping when it is not
C30_EmbeddedStatusOnly ==
    wrapped.op = "init" =>
      /\ (wrapped.raised # NoExc) <=> EmbeddedError(wrapped.body)
      /\ wrapped.raised # NoExc
            => wrapped.raised = PyException("HTTPStatusError")
      /\ wrapped.raised = NoExc
            => wrapped.json = IF wrapped.body.kind = "invalid"
                              THEN EmptyMapping ELSE wrapped.body

\* a DELETE was sent for resource r or for a resource r is part of
RECURSIVE Covered(_)
Covered(r) ==
    \/ r \in ra.deleted
    \/ ParentOf[r] # None /\ Covered(ParentOf[r])

\* C24: a run-all that created remote resources has, when it returns, sent
\* a delete request for each of them (for the resource itself or for the
\* one that contains it), whether its test steps passed or failed, and a
\* failed delete keeps no other delete from being attempted
C24_CreatedResourcesDeleted ==
    ra.pc = "done" =>
      /\ \A r \in ra.created : Covered(r)
      /\ \A r \in ra.held : r \in ra.deleted \cup ra.late

\* C28: no request is attempted through a session that has been closed;
\* the cleanup deletes of custom_fields.all go through its own session
\* while that session is open
C28_NoRequestAfterClose ==
    /\ ra.late = {}
    /\ (ra.pc = "cleanup" /\ ra.own = "closed")
          => \A k \in ra.i..Len(RunAllBodies[ra.cat].cleanup) :
                LET c == RunAllBodies[ra.cat].cleanup[k]
                IN c.via = "own" => c.res \notin ra.held

=============================================================================
